---- MODULE Spec2Model ----
(***************************************************************************)
(* Model of Tools/LogServer/LogServer.py: a socketserver.TCPServer whose   *)
(* LogRequestHandler appends JSON records to logs.json (POST /log), keeps  *)
(* the newest 500 of them, and serves the file back (GET /data).           *)
(*                                                                         *)
(* The durable file is a sequence of cells.  A record is serialised into   *)
(* `size` consecutive cells (records have different text lengths), and the *)
(* text ends with one END cell (the closing bracket of the JSON array).    *)
(* A write overwrites cells in place from the file position, the buffered  *)
(* writer hands the text to the file BufferCells cells at a time, and      *)
(* truncate cuts the file at the file position.                            *)
(***************************************************************************)
EXTENDS Integers, Sequences, FiniteSets, TLC

\* ------------------------------------------------------------------ bounds
\* records the clients send in a run of Spec
MaxAppends == 2
\* handlers that can exist at the same time
MaxConns == 2
\* connections that can wait in the listen queue
MaxBacklog == 1
\* I/O errors the operating system raises in a run of Spec
MaxFaults == 1
\* records the clients send in a run of SpecFill
MaxFill == 502
\* cells the buffered writer passes to the file in one write
BufferCells == 256
\* clock ticks of one day: the scale of the time of day that strftime prints
DayTicks == 4
\* records the clients send in a run of SpecRound, and in a run of SpecOver
MaxRound == 2

\* ------------------------------------------------------- program constants
\* LogServer.py:127  if len(logs) > 500: logs = logs[-500:]
CAPACITY == 500

Conns == 1..MaxConns

\* lengths of the logs.json found at startup (0: no file, an empty one is
\* created); the file outlives the process, so it may hold the log of an earlier run
InitLens == {0, 500}

VARIABLES
    file,      \* content of logs.json: a sequence of cells
    conn,      \* per handler slot: the request, the handler's position and locals, the response
    backlog,   \* connections waiting in the listen queue, oldest first; of each one,
               \* history: whether it arrived while an Append had the file open
    startLen,  \* number of records of the logs.json found at startup
    nextTag,   \* tag the client gives to its next record
    clock,     \* the server's clock: it has advanced whenever it is read again
    faults,    \* I/O errors raised so far
    appended,  \* history: records of the POST /log requests answered 200, in that order
    entered,   \* history: tags of the Appends in the order they opened the file for writing
    wstate     \* history: what last happened to the file: "startup", "writing", "completed", "failed"

vars == <<file, conn, backlog, startLen, nextTag, clock, faults, appended, entered, wstate>>

\* ------------------------------------------------------------ pure helpers
Min(a, b) == IF a < b THEN a ELSE b
Max(a, b) == IF a > b THEN a ELSE b

\* the last n elements of s (Python s[-n:], n >= 1)
LastN(s, n) == IF Len(s) <= n THEN s ELSE SubSeq(s, Len(s) - n + 1, Len(s))

\* a record: the client's fields (tag: the values of the fields the dashboard
\* knows, extra: how many fields it does not know), the length of its text, and
\* its 'timestamp' field
END == <<0, 0, 0, 0, 0>>
NoRec == [tag |-> 0, size |-> 0, ts |-> 0, extra |-> 0]

\* the k-th cell of the text of record r
Cell(r, k) == <<r.tag, k, r.size, r.ts, r.extra>>
Encode(r) == [k \in 1..r.size |-> Cell(r, k)]

RECURSIVE EncodeRange(_, _, _)
EncodeRange(logs, lo, hi) ==
    IF lo > hi THEN <<>>
    ELSE IF lo = hi THEN Encode(logs[lo])
    ELSE LET mid == (lo + hi) \div 2
         IN  EncodeRange(logs, lo, mid) \o EncodeRange(logs, mid + 1, hi)

\* json.dump(logs, f): the text of the whole list
Dump(logs) == EncodeRange(logs, 1, Len(logs)) \o <<END>>

\* json.load(f) succeeds: the text is a list of complete records, closed once, at the end
Parses(f) ==
    /\ Len(f) >= 1
    /\ f[Len(f)] = END
    /\ \A i \in 1..(Len(f) - 1) :
          LET cell == f[i]
          IN  /\ cell # END
              /\ cell[2] >= 1 /\ cell[2] <= cell[3]
              /\ IF cell[2] = 1 THEN TRUE
                 ELSE i > 1 /\ f[i-1] = <<cell[1], cell[2] - 1, cell[3], cell[4], cell[5]>>
              /\ IF cell[2] = cell[3] THEN TRUE
                 ELSE i + 1 <= Len(f) - 1 /\ f[i+1][2] = cell[2] + 1

IsFirstCell(cell) == cell[2] = 1

\* json.load(f): the records of a text that parses
Load(f) ==
    LET starts == SelectSeq(f, IsFirstCell)
    IN  [i \in 1..Len(starts) |->
            [tag |-> starts[i][1], size |-> starts[i][3], ts |-> starts[i][4],
             extra |-> starts[i][5]]]

\* f.write at file position pos: overwrites in place, extends the file past its end
WriteAt(f, pos, data) ==
    [i \in 1..Max(Len(f), pos + Len(data)) |->
        IF i > pos /\ i <= pos + Len(data) THEN data[i - pos] ELSE f[i]]

\* f.truncate(): cuts the file at the file position
Truncate(f, pos) == SubSeq(f, 1, Min(pos, Len(f)))

\* ------------------------------------------------------------ the requests
\* the 'timestamp' field of a body that has none, and one a client supplies
\* (no time of day that Format yields)
NoStamp == -1
ClientStamp == DayTicks

\* extra, cts: the unknown fields and the 'timestamp' field of the JSON object sent
Req(m, p, b, a) ==
    [method |-> m, path |-> p, body |-> b, arrived |-> a, extra |-> 0, cts |-> NoStamp]

\* body: "object" (a JSON object), "array" (JSON, no object), "notjson", "empty" (no
\* or zero Content-Length), "badlen" (a Content-Length that is no number), "none" (a
\* request without body).
\* arrived = FALSE: the declared body bytes have not been sent yet.
Requests ==
    {Req("OPTIONS", p, "none", TRUE) : p \in {"/log", "/other"}}
    \cup {Req("PUT", "/log", "none", TRUE)}
    \cup {Req("GET", p, "none", TRUE) : p \in {"/", "/data", "/other"}}
    \cup {Req("POST", "/other", "object", TRUE)}
    \cup {Req("POST", "/log", "object", a) : a \in BOOLEAN}
    \cup {Req("POST", "/log", b, TRUE) : b \in {"array", "notjson", "empty", "badlen"}}

\* the requests of a run that fills the log: well-formed records and polls
FillRequests ==
    {Req("POST", "/log", "object", TRUE), Req("GET", "/data", "none", TRUE)}

\* the requests of a run that looks at what a record holds: records with and
\* without unknown fields, with and without a 'timestamp' of the client, and polls
RoundRequests ==
    {[Req("POST", "/log", "object", TRUE) EXCEPT !.extra = x, !.cts = t] :
        x \in 0..1, t \in {NoStamp, ClientStamp}}
    \cup {Req("GET", "/data", "none", TRUE)}

\* cells the text of the client's record tagged t takes: the records differ in length
SizeOf(t) == 1 + (t % 2)

\* a logs.json left by an earlier run: records tagged 1..n, of alternating text length
OldRec(t) == [tag |-> t, size |-> SizeOf(t), ts |-> 0, extra |-> 0]
OldLog(n) == [t \in 1..n |-> OldRec(t)]

FreeConn ==
    [st |-> "free", method |-> "", path |-> "", body |-> "none", tag |-> 0, size |-> 0,
     extra |-> 0, cts |-> NoStamp, arrived |-> TRUE, overlap |-> FALSE,
     rec |-> NoRec, logs |-> <<>>, out |-> <<>>, pos |-> 0, pre |-> <<>>,
     status |-> 0, headers |-> {}, payload |-> "", data |-> <<>>,
     escaped |-> FALSE, wfailed |-> FALSE, view |-> ""]

\* positions of a handler between accept and the end of the request
Handling == {"parsed", "get_read", "post_read", "post_open", "post_write", "post_ok",
             "post_except", "done"}

\* an Append holds logs.json open for writing (lines 124-130)
InWriteSection(c) == conn[c].st = "post_write"

IsAppend(c) == conn[c].method = "POST" /\ conn[c].path = "/log"
IsSnapshot(c) == conn[c].method = "GET" /\ conn[c].path = "/data"

\* ------------------------------------------------------------ the code
\* datetime.now()
Now == clock

\* line 122: strftime("%H:%M:%S.%f")[:-3], the time of day without the date
Format(t) == t % DayTicks

\* line 121: json.loads(post_data), the dict of the fields the client sent
JsonLoads(q) == [tag |-> q.tag, size |-> q.size, extra |-> q.extra, ts |-> q.cts]

\* line 122: new_log['timestamp'] = ..., whatever the dict held under that key
StampDefault(d, t) == IF d.ts # NoStamp THEN d ELSE [d EXCEPT !.ts = t]
Stamp(d, t) == [d EXCEPT !.ts = t]

\* the headers of the responses, as <<name, value>>
AllowOrigin == <<"Access-Control-Allow-Origin", "*">>

\* lines 18-20
OptionsHeaders ==
    {AllowOrigin, <<"Access-Control-Allow-Methods", "POST, GET, OPTIONS">>,
     <<"Access-Control-Allow-Headers", "Content-Type">>}

\* lines 26-27 and line 110
PageHeaders == {AllowOrigin, <<"Content-type", "text/html">>}
DataHeaders == {<<"Content-type", "application/json">>}

\* lines 133-134
OkHeaders == {AllowOrigin, <<"Content-Type", "application/json">>}

\* line 139
ErrorHeadersBare == {}
ErrorHeaders == {AllowOrigin}

\* socketserver.TCPServer.serve_forever: the next connection is accepted only when
\* the handler of the previous one has returned and the connection is shut down
ServerIdleThreaded == TRUE
ServerIdle == \A c \in Conns : conn[c].st \notin Handling

\* line 116: if self.path == '/log'
IsAnyPath(p) == TRUE
IsLogPath(p) == p = "/log"

\* line 121-122: json.loads gives a dict, so that new_log['timestamp'] = ... works
DecodesAny(b) == b \in {"object", "array"}
Decodes(b) == b = "object"

\* line 126: logs.append(new_log)
PrependRec(logs, r) == <<r>> \o logs
AppendRec(logs, r) == Append(logs, r)

\* line 127: if len(logs) > 500: logs = logs[-500:]
TrimNone(logs) == logs
TrimOldest(logs) == IF Len(logs) > CAPACITY THEN Tail(logs) ELSE logs
Trim(logs) == IF Len(logs) > CAPACITY THEN LastN(logs, CAPACITY) ELSE logs

\* line 128: f.seek(0), the file position the text is written from
SeekNone(f) == Len(f)
Seek0(f) == 0

\* the content a Snapshot reads, against the Appends that have the file open:
\* "torn" when it is neither the file before nor the file after one of them
ViewOf(f) ==
    IF \A d \in Conns : ~InWriteSection(d) THEN "quiescent"
    ELSE IF \E d \in Conns : InWriteSection(d) /\ f # conn[d].pre /\ f # Dump(conn[d].logs)
         THEN "torn" ELSE "whole"

\* what is on the disk when the process starts: no logs.json, or the one an
\* earlier run has left, with n records
NoFile == <<>>
DiskAtStart(n) == IF n = 0 THEN NoFile ELSE Dump(OldLog(n))

\* lines 11-13: if not os.path.exists(LOG_FILE): json.dump([], f)
StartupReset(disk) == Dump(<<>>)
Startup(disk) == IF disk = NoFile THEN Dump(<<>>) ELSE disk

\* the state when serve_forever begins, the disk holding n records
StartWith(n) ==
    /\ startLen = n
    /\ file = Startup(DiskAtStart(n))
    /\ conn = [c \in Conns |-> FreeConn]
    /\ backlog = <<>>
    /\ clock = 0
    /\ nextTag = n + 1
    /\ faults = 0
    /\ appended = <<>>
    /\ entered = <<>>
    /\ wstate = "startup"

Init == \E n \in InitLens : StartWith(n)

\* the process is stopped between two requests and started again: the module
\* body runs again on the logs.json that is on the disk, the connections that
\* waited are gone
Restart ==
    /\ ServerIdle
    /\ file' = Startup(file)
    /\ conn' = [c \in Conns |-> FreeConn]
    /\ backlog' = <<>>
    /\ wstate' = "startup"
    /\ UNCHANGED <<startLen, nextTag, clock, faults, appended, entered>>

\* a client connects and sends its request: the connection waits in the listen queue
Connect ==
    /\ Len(backlog) < MaxBacklog
    /\ backlog' = Append(backlog, \E d \in Conns : InWriteSection(d))
    /\ UNCHANGED <<file, conn, startLen, nextTag, clock, faults, appended, entered, wstate>>

\* serve_forever accepts the oldest waiting connection and a handler, c, parses its
\* request, r; a JSON object is the client's next record, tagged nextTag
Accept(c, r, limit) ==
    /\ ServerIdle
    /\ backlog # <<>>
    /\ conn[c].st = "free"
    /\ \A d \in 1..(c - 1) : conn[d].st # "free"
    /\ r.body = "object" => nextTag - startLen <= limit
    /\ conn' = [conn EXCEPT ![c] =
                  [@ EXCEPT !.st = "parsed", !.method = r.method, !.path = r.path,
                            !.body = r.body, !.arrived = r.arrived,
                            !.extra = r.extra, !.cts = r.cts,
                            !.overlap = Head(backlog),
                            !.tag = IF r.body = "object" THEN nextTag ELSE 0,
                            !.size = IF r.body = "object" THEN SizeOf(nextTag) ELSE 0]]
    /\ backlog' = Tail(backlog)
    /\ nextTag' = IF r.body = "object" THEN nextTag + 1 ELSE nextTag
    /\ UNCHANGED <<file, startLen, clock, faults, appended, entered, wstate>>

\* a slow client sends the body it declared, while the handler waits for it
SendBody(c) ==
    /\ conn[c].st = "post_read"
    /\ ~conn[c].arrived
    /\ conn' = [conn EXCEPT ![c].arrived = TRUE]
    /\ UNCHANGED <<file, backlog, startLen, nextTag, clock, faults, appended, entered, wstate>>

\* BaseHTTPRequestHandler.handle_one_request: no do_<METHOD>, send_error(501)
SendError501(c) ==
    /\ conn[c].st = "parsed"
    /\ conn[c].method \notin {"OPTIONS", "GET", "POST"}
    /\ conn' = [conn EXCEPT ![c].st = "done", ![c].status = 501]
    /\ UNCHANGED <<file, backlog, startLen, nextTag, clock, faults, appended, entered, wstate>>

do_OPTIONS(c) ==
    /\ conn[c].st = "parsed"
    /\ conn[c].method = "OPTIONS"
    /\ conn' = [conn EXCEPT ![c].st = "done", ![c].status = 200,
                            ![c].headers = OptionsHeaders]
    /\ UNCHANGED <<file, backlog, startLen, nextTag, clock, faults, appended, entered, wstate>>

\* lines 23-111: "/" answers the page, "/data" sends the 200 header and goes on to
\* read the file, any other path returns without a response
do_GET(c) ==
    /\ conn[c].st = "parsed"
    /\ conn[c].method = "GET"
    /\ conn' = [conn EXCEPT ![c] =
                  IF conn[c].path = "/"
                  THEN [@ EXCEPT !.st = "done", !.status = 200,
                                 !.headers = PageHeaders, !.payload = "html"]
                  ELSE IF conn[c].path = "/data"
                  THEN [@ EXCEPT !.st = "get_read", !.status = 200, !.headers = DataHeaders]
                  ELSE [@ EXCEPT !.st = "done"]]
    /\ UNCHANGED <<file, backlog, startLen, nextTag, clock, faults, appended, entered, wstate>>

\* lines 112-113: the response body is the text of the file as it is
GetRead(c) ==
    /\ conn[c].st = "get_read"
    /\ conn' = [conn EXCEPT ![c].st = "done", ![c].payload = "data", ![c].data = file,
                            ![c].view = ViewOf(file)]
    /\ UNCHANGED <<file, backlog, startLen, nextTag, clock, faults, appended, entered, wstate>>

\* lines 115-117: any other path returns without a response; int() of a
\* Content-Length that is no number raises outside the try block
do_POST(c) ==
    /\ conn[c].st = "parsed"
    /\ conn[c].method = "POST"
    /\ conn' = [conn EXCEPT ![c] =
                  IF ~IsLogPath(conn[c].path) THEN [@ EXCEPT !.st = "done"]
                  ELSE IF conn[c].body = "badlen" THEN [@ EXCEPT !.st = "done", !.escaped = TRUE]
                  ELSE [@ EXCEPT !.st = "post_read"]]
    /\ UNCHANGED <<file, backlog, startLen, nextTag, clock, faults, appended, entered, wstate>>

\* lines 118-122: rfile.read blocks until the declared bytes are there; then the
\* body is decoded and stamped, or the exception is raised inside the try block
PostRead(c) ==
    /\ conn[c].st = "post_read"
    /\ conn[c].arrived
    /\ conn' = [conn EXCEPT ![c] =
                  IF Decodes(conn[c].body)
                  THEN [@ EXCEPT !.st = "post_open",
                                 !.rec = Stamp(JsonLoads(conn[c]), Format(Now))]
                  ELSE [@ EXCEPT !.st = "post_except"]]
    /\ clock' = IF Decodes(conn[c].body) THEN clock + 1 ELSE clock
    /\ UNCHANGED <<file, backlog, startLen, nextTag, faults, appended, entered, wstate>>

\* lines 124-129: open, json.load, append, trim, seek(0), json.dump into the write buffer
PostOpen(c) ==
    /\ conn[c].st = "post_open"
    /\ conn' = [conn EXCEPT ![c] =
                  IF Parses(file)
                  THEN LET logs == Trim(AppendRec(Load(file), conn[c].rec))
                       IN  [@ EXCEPT !.st = "post_write", !.logs = logs, !.out = Dump(logs),
                                     !.pos = Seek0(file), !.pre = file]
                  ELSE [@ EXCEPT !.st = "post_except"]]
    /\ entered' = IF Parses(file) THEN Append(entered, conn[c].tag) ELSE entered
    /\ UNCHANGED <<file, backlog, startLen, nextTag, clock, faults, appended, wstate>>

\* the buffered writer passes the next BufferCells cells of the text to the file
PostFlush(c) ==
    /\ conn[c].st = "post_write"
    /\ conn[c].out # <<>>
    /\ LET n == Min(BufferCells, Len(conn[c].out))
       IN  /\ file' = WriteAt(file, conn[c].pos, SubSeq(conn[c].out, 1, n))
           /\ conn' = [conn EXCEPT ![c].pos = @ + n,
                                   ![c].out = SubSeq(@, n + 1, Len(@))]
    /\ wstate' = "writing"
    /\ UNCHANGED <<backlog, startLen, nextTag, clock, faults, appended, entered>>

\* line 130 and the end of the with block: f.truncate(), close
PostTruncate(c) ==
    /\ conn[c].st = "post_write"
    /\ conn[c].out = <<>>
    /\ file' = Truncate(file, conn[c].pos)
    /\ conn' = [conn EXCEPT ![c].st = "post_ok", ![c].pre = <<>>, ![c].logs = <<>>]
    /\ wstate' = "completed"
    /\ UNCHANGED <<backlog, startLen, nextTag, clock, faults, appended, entered>>

\* lines 132-136
PostRespondOK(c) ==
    /\ conn[c].st = "post_ok"
    /\ conn' = [conn EXCEPT ![c].st = "done", ![c].status = 200,
                            ![c].headers = OkHeaders, ![c].payload = "ok"]
    /\ appended' = Append(appended, conn[c].rec)
    /\ UNCHANGED <<file, backlog, startLen, nextTag, clock, faults, entered, wstate>>

\* lines 137-142: except Exception
PostExcept(c) ==
    /\ conn[c].st = "post_except"
    /\ conn' = [conn EXCEPT ![c].st = "done", ![c].status = 400,
                            ![c].headers = ErrorHeaders, ![c].payload = "error",
                            ![c].logs = <<>>, ![c].out = <<>>]
    /\ UNCHANGED <<file, backlog, startLen, nextTag, clock, faults, appended, entered, wstate>>

\* open, read, write, truncate or close raises OSError: on the GET /data path
\* nothing catches it, on the POST /log path the except clause does
IOFault(c) ==
    /\ faults < MaxFaults
    /\ conn[c].st \in {"get_read", "post_open", "post_write"}
    /\ faults' = faults + 1
    /\ conn' = [conn EXCEPT ![c] =
                  IF conn[c].st = "get_read" THEN [@ EXCEPT !.st = "done", !.escaped = TRUE]
                  ELSE [@ EXCEPT !.st = "post_except", !.wfailed = (conn[c].st = "post_write")]]
    /\ wstate' = IF conn[c].st = "post_write" THEN "failed" ELSE wstate
    /\ UNCHANGED <<file, backlog, startLen, nextTag, clock, appended, entered>>

\* the handler has returned: shutdown_request closes the connection
Shutdown(c) ==
    /\ conn[c].st = "done"
    /\ conn' = [conn EXCEPT ![c] = FreeConn]
    /\ UNCHANGED <<file, backlog, startLen, nextTag, clock, faults, appended, entered, wstate>>

Server(c) ==
    \/ SendError501(c)
    \/ do_OPTIONS(c)
    \/ do_GET(c)
    \/ GetRead(c)
    \/ do_POST(c)
    \/ PostRead(c)
    \/ PostOpen(c)
    \/ PostFlush(c)
    \/ PostTruncate(c)
    \/ PostRespondOK(c)
    \/ PostExcept(c)
    \/ Shutdown(c)

Next ==
    \/ Connect
    \/ \E c \in Conns, r \in Requests : Accept(c, r, MaxAppends)
    \/ \E c \in Conns : SendBody(c)
    \/ \E c \in Conns : Server(c)
    \/ \E c \in Conns : IOFault(c)

Spec == Init /\ [][Next]_vars

\* a run that fills an empty log: well-formed records and polls only, no I/O error
InitFill == Init /\ startLen = 0

NextFill ==
    \/ Connect
    \/ \E c \in Conns, r \in FillRequests : Accept(c, r, MaxFill)
    \/ \E c \in Conns :
          \/ do_GET(c)
          \/ GetRead(c)
          \/ do_POST(c)
          \/ PostRead(c)
          \/ PostOpen(c)
          \/ PostFlush(c)
          \/ PostTruncate(c)
          \/ PostRespondOK(c)
          \/ Shutdown(c)

SpecFill == InitFill /\ [][NextFill]_vars

\* short runs that look at what the records hold, over restarts of the process:
\* records with and without unknown fields and a 'timestamp' of the client,
\* polls, no I/O error
RoundLens == {0, 2}

InitRound == \E n \in RoundLens : StartWith(n)

NextRound ==
    \/ Connect
    \/ Restart
    \/ \E c \in Conns, r \in RoundRequests : Accept(c, r, MaxRound)
    \/ \E c \in Conns :
          \/ do_GET(c)
          \/ GetRead(c)
          \/ do_POST(c)
          \/ PostRead(c)
          \/ PostOpen(c)
          \/ PostFlush(c)
          \/ PostTruncate(c)
          \/ PostRespondOK(c)
          \/ Shutdown(c)

SpecRound == InitRound /\ [][NextRound]_vars

\* short runs on a logs.json of an earlier run that is about full, full, or
\* longer than the capacity: well-formed records and polls, no I/O error
OverLens == {CAPACITY - 1, CAPACITY, CAPACITY + 1}

InitOver == \E n \in OverLens : StartWith(n)

NextOver ==
    \/ Connect
    \/ \E c \in Conns, r \in FillRequests : Accept(c, r, MaxRound)
    \/ \E c \in Conns :
          \/ do_GET(c)
          \/ GetRead(c)
          \/ do_POST(c)
          \/ PostRead(c)
          \/ PostOpen(c)
          \/ PostFlush(c)
          \/ PostTruncate(c)
          \/ PostRespondOK(c)
          \/ Shutdown(c)

SpecOver == InitOver /\ [][NextOver]_vars

\* ------------------------------------------------------------------ claims
Tags(logs) == [i \in 1..Len(logs) |-> logs[i].tag]

\* a Snapshot has been answered by handler c
Snapshotted(c) == conn[c].st = "done" /\ IsSnapshot(c) /\ conn[c].payload = "data"

\* a POST /log has been answered 200 by handler c
Accepted(c) == conn[c].st = "done" /\ IsAppend(c) /\ conn[c].status = 200

\* C1: after N Appends answered 200 on an initially empty log, a Snapshot returns
\* the newest min(N, 500) appended records, oldest first: of the records tagged
\* 1..N those tagged N-499..N (1..N while N <= 500)
C1_SnapshotNewest ==
    \A c \in Conns : Snapshotted(c) =>
        LET N == Len(appended)
            got == Load(conn[c].data)
        IN  /\ Parses(conn[c].data)
            /\ Len(got) = Min(N, CAPACITY)
            /\ got = LastN(appended, CAPACITY)
            /\ \A i \in 1..Len(got) : got[i].tag = Max(0, N - CAPACITY) + i

\* 501 records were appended and a Snapshot returns those tagged 2..501
C1_Witness ==
    \E c \in Conns :
        /\ Snapshotted(c)
        /\ Len(appended) = CAPACITY + 1
        /\ Len(Load(conn[c].data)) = CAPACITY
        /\ Load(conn[c].data)[1].tag = 2
        /\ Load(conn[c].data)[CAPACITY].tag = CAPACITY + 1

\* C2: whenever the file is as a completed Append left it, it holds a log of at
\* most CAPACITY records
C2_Capacity ==
    wstate = "completed" => Parses(file) /\ Len(Load(file)) <= CAPACITY

\* an Append on a file of 500 records has completed and has left 500, the oldest evicted
C2_Witness ==
    /\ wstate = "completed"
    /\ startLen = CAPACITY
    /\ Len(Load(file)) = CAPACITY
    /\ Load(file)[1].tag = 2

C4_Serialized ==
    /\ Cardinality({c \in Conns : InWriteSection(c)}) <= 1
    /\ (startLen = 0 /\ Len(appended) = nextTag - 1 /\ Len(appended) <= CAPACITY) =>
          /\ Parses(file)
          /\ Tags(Load(file)) = entered
          /\ Len(entered) = Len(appended)

\* 500 records have been appended, all answered 200, and the log holds all of them
C4_Witness ==
    /\ startLen = 0
    /\ Len(appended) = CAPACITY
    /\ nextTag = CAPACITY + 1
    /\ Tags(Load(file)) = entered
    /\ Len(entered) = CAPACITY

\* handler c handles a POST /log whose body is no JSON object
Malformed(c) ==
    /\ conn[c].st \in Handling
    /\ IsAppend(c)
    /\ conn[c].body \in {"array", "notjson", "empty"}

\* C5: no step of the handler of a POST /log whose body is not a JSON object
\* changes the file, and the handler ends with the answer 400
C5_DecodeRejection ==
    [][\A c \in Conns :
          (Malformed(c) /\ conn'[c] # conn[c]) =>
              /\ file' = file
              /\ conn'[c].st = "done" => conn'[c].status = 400]_vars

\* a POST /log with the body not-json has been answered 400, the log is as it was
C5_Witness ==
    \E c \in Conns :
        /\ conn[c].st = "done"
        /\ IsAppend(c)
        /\ conn[c].body = "notjson"
        /\ conn[c].status = 400
        /\ file = Dump(OldLog(startLen))

\* C6 (as claimed): an Append whose write has failed answers 400 and leaves the
\* file as it was when the Append opened it
C6_FailedAppendRollsBack ==
    \A c \in Conns :
        conn[c].wfailed =>
            /\ file = conn[c].pre
            /\ conn[c].st = "done" => conn[c].status = 400

\* C7: when a POST /log has been answered 200 the file is as the completed Append
\* left it: it parses and its last record is the stamped record of that request
C7_PersistedBefore200 ==
    \A c \in Conns :
        Accepted(c) =>
            /\ wstate = "completed"
            /\ Parses(file)
            /\ Len(Load(file)) >= 1
            /\ Load(file)[Len(Load(file))] = conn[c].rec
            /\ conn[c].rec.tag = conn[c].tag

\* a POST /log has been answered 200 and its record is the last of the log
C7_Witness ==
    \E c \in Conns :
        /\ Accepted(c)
        /\ Parses(file)
        /\ Load(file)[Len(Load(file))].tag = conn[c].tag
        /\ conn[c].tag > startLen

\* C8 (as claimed): no error of a request escapes the handler
C8_NoErrorEscapes ==
    \A c \in Conns : ~conn[c].escaped

\* C9 (as claimed): a handler that has returned has sent an HTTP response
C9_AlwaysResponded ==
    \A c \in Conns : conn[c].st = "done" => conn[c].status # 0

\* C10 (as claimed): while a handler waits for the body of a slow client, a
\* connection that waits in the listen queue can be accepted
C10_SlowClientDoesNotBlock ==
    ((\E c \in Conns : conn[c].st = "post_read" /\ ~conn[c].arrived) /\ backlog # <<>>)
        => ENABLED (\E c \in Conns, r \in Requests : Accept(c, r, MaxAppends))

\* C11 (as claimed): GET routes leave the log alone and only a POST /log that
\* is answered 200 changes it, so a Snapshot taken while no POST /log has been
\* answered 200 since startup returns what a Snapshot at startup returned
C11_SnapshotsAgree ==
    \A c \in Conns :
        (Snapshotted(c) /\ appended = <<>>) => conn[c].data = Dump(OldLog(startLen))

\* C12: a record that was accepted comes back as the newest record with the
\* client's fields, unknown ones included, as they were sent, and with the
\* server's time of the request as 'timestamp', whatever 'timestamp' the client sent
C12_RoundTrip ==
    \A c \in Conns :
        /\ Accepted(c) =>
              LET got == Load(file)
                  new == got[Len(got)]
              IN  /\ Parses(file) /\ Len(got) >= 1
                  /\ new.tag = conn[c].tag
                  /\ new.extra = conn[c].extra
                  /\ new.size = conn[c].size
                  /\ new.ts = Format(clock - 1)
                  /\ new = appended[Len(appended)]
        /\ (Snapshotted(c) /\ appended # <<>>) =>
              LET got == Load(conn[c].data)
              IN  /\ Parses(conn[c].data) /\ Len(got) >= 1
                  /\ got[Len(got)] = appended[Len(appended)]

\* a record with an unknown field and a 'timestamp' of the client's was accepted
\* and is the newest of the log, stamped by the server
C12_Witness ==
    \E c \in Conns :
        /\ Accepted(c)
        /\ conn[c].extra = 1 /\ conn[c].cts = ClientStamp
        /\ Load(file)[Len(Load(file))].extra = 1
        /\ Load(file)[Len(Load(file))].ts # ClientStamp

C14_StartupKeepsLog ==
    \A c \in Conns :
        (Snapshotted(c) /\ wstate = "startup") =>
            /\ Parses(conn[c].data)
            /\ Load(conn[c].data) = LastN(OldLog(startLen) \o appended, CAPACITY)
            /\ (startLen = 0 /\ appended = <<>>) => conn[c].data = <<END>>

\* the process has started again after a record was accepted, and the first
\* Snapshot returns the old records and that record
C14_Witness ==
    \E c \in Conns :
        /\ Snapshotted(c) /\ wstate = "startup"
        /\ startLen > 0 /\ appended # <<>>
        /\ Len(Load(conn[c].data)) = startLen + Len(appended)

\* the 'timestamp' values of logs do not decrease in log order
NonDecreasing(logs) == \A i \in 1..(Len(logs) - 1) : logs[i].ts <= logs[i + 1].ts

\* C15 (as claimed): whenever an Append has completed, the timestamps of the
\* records of the log are non-decreasing in log order; the clock of the model
\* only moves forward
C15_Monotonic ==
    wstate \in {"startup", "completed"} => NonDecreasing(Load(file))

\* C15 (amended): as long as the clock has not passed midnight since the run
\* began with an empty log, the timestamps of the records of the log are
\* non-decreasing in log order
C15_MonotonicWithinDay ==
    (wstate \in {"startup", "completed"} /\ startLen = 0 /\ clock <= DayTicks)
        => Parses(file) /\ NonDecreasing(Load(file))

\* several records were appended before midnight
C15_Witness ==
    /\ wstate = "completed" /\ startLen = 0 /\ clock <= DayTicks
    /\ Len(Load(file)) >= 3
    /\ Load(file)[1].ts < Load(file)[3].ts

\* positions in which a handler has logs.json open
FileAccess == {"get_read", "post_open", "post_write"}

\* C16: requests are handled strictly one at a time: at most one handler exists
\* between accept and the end of its request, so while an Append has the file
\* open no other handler has it open, for reading or for writing
C16_OneAtATime ==
    /\ Cardinality({c \in Conns : conn[c].st \in Handling}) <= 1
    /\ \A c, d \in Conns :
          (c # d /\ IsAppend(c) /\ conn[c].st \in FileAccess) => conn[d].st \notin FileAccess

\* an Append is writing the file while another connection waits in the listen
\* queue, not dispatched
C16_Witness ==
    \E c \in Conns :
        /\ InWriteSection(c) /\ file # conn[c].pre
        /\ backlog # <<>>
        /\ \A d \in Conns : d # c => conn[d].st = "free"

\* C17: the capacity is enforced by Append only.  Until the first Append has
\* written, a Snapshot returns the whole log found at startup, also when it is
\* longer than 500; a completed Append on a log of L records leaves
\* min(L + 1, 500) records: the new record last, before it the newest of the
\* previous ones, 499 of them when L >= 500 (all but the oldest when L = 500)
SnapshotAtStartup(c) ==
    (Snapshotted(c) /\ wstate = "startup") =>
        Load(conn[c].data) = OldLog(startLen) /\ Len(Load(conn[c].data)) = startLen

C17_CapacityOnAppend ==
    [][\A c \in Conns :
          /\ SnapshotAtStartup(c)'
          /\ (conn[c].st = "post_write" /\ conn'[c].st = "post_ok") =>
                LET before == Load(conn[c].pre)
                    after == Load(file')
                    L == Len(before)
                IN  /\ Parses(file')
                    /\ Len(after) = Min(L + 1, CAPACITY)
                    /\ after[Len(after)] = conn[c].rec
                    /\ SubSeq(after, 1, Len(after) - 1) = LastN(before, CAPACITY - 1)
                    /\ L <= CAPACITY => L - (Len(after) - 1) <= 1]_vars

\* the log found at startup has 501 records, and the first Append has left 500:
\* the new record and before it those tagged 3..501
C17_Witness ==
    \E c \in Conns :
        /\ conn[c].st = "post_ok"
        /\ startLen = CAPACITY + 1 /\ appended = <<>>
        /\ Len(Load(file)) = CAPACITY
        /\ Load(file)[1].tag = 3
        /\ Load(file)[CAPACITY].tag = CAPACITY + 2

\* C18: only a handler of a POST whose path is /log changes the file: OPTIONS,
\* GET, and POST on another path leave it as it is; an Append that completes
\* adds its one record, once, and no other record; and while a POST /log is
\* handled the log is never more than one record longer than the request found it
C18_OnlyPostLogMutates ==
    [][/\ file' # file => \E c \in Conns : IsAppend(c) /\ conn[c].st = "post_write"
       /\ \A c \in Conns :
             /\ (conn[c].st = "post_write" /\ conn'[c].st = "post_ok") =>
                   LET before == Load(conn[c].pre)
                       after == Load(file')
                   IN  /\ Len(after) >= 1 /\ Len(after) <= Len(before) + 1
                       /\ after = LastN(before, Len(after) - 1) \o <<conn[c].rec>>
                       /\ \A i \in 1..Len(before) : before[i] # conn[c].rec
             /\ (conn[c].st = "post_write" /\ file' # file /\ Parses(file')) =>
                   Len(Load(file')) <= Len(Load(conn[c].pre)) + 1]_vars

\* one POST /log was answered 200 on an empty log, and a POST on another path
\* has been handled since: the log holds the one record
C18_Witness ==
    \E c \in Conns :
        /\ conn[c].st = "done" /\ conn[c].method = "POST" /\ conn[c].path = "/other"
        /\ startLen = 0 /\ Len(appended) = 1
        /\ file = Dump(appended)

====
